---- MODULE Spec2Model ----
(***************************************************************************)
(* Model of gsync.py (zsimic/roaming): one run of main() is               *)
(*   require mount / unison / crontab, create the local target folder,     *)
(*   list the crontab and install the cron line, perform_sync(),           *)
(*   require the installed script file.                                    *)
(*                                                                         *)
(* Text is modelled as a sequence of tokens, each token an atomic,         *)
(* non-empty piece of a Python str (" " is one blank, "\n" a line break,   *)
(* "/" a path separator; "Updating file", an alternative of REGEX_UPDATE,  *)
(* is the one token with a blank inside).  str operations (in, startswith, *)
(* strip, split, replace, os.path.dirname, re.match) are computed on the   *)
(* token sequence the way Python computes them on characters.  subprocess  *)
(* output is taken as text (str), as the code's own `in` and split('\n')   *)
(* tests take it.                                                          *)
(*                                                                         *)
(* Spec runs main() over every stream the synchronizer may print, from a   *)
(* few scheduler tables; SpecCron runs the same actions over every         *)
(* scheduler table, with a few streams; SpecPath applies ultra_short_path  *)
(* to a path and to its own result.                                        *)
(***************************************************************************)
EXTENDS Integers, Sequences, FiniteSets, TLC

(***************************************************************************)
(* Bounds of the model.                                                    *)
(***************************************************************************)
MaxStream == 2      \* lines in the synchronizer's diagnostic stream
MaxTable == 2       \* lines in the initial scheduler table
MaxRuns == 2        \* consecutive runs of main()
MaxRC == 2          \* largest exit code of an external command
MaxBinFiles == 1    \* regular files in ~/bin
MaxFewStream == 1   \* lines in the stream, in the runs that vary the scheduler table

(***************************************************************************)
(* str helpers                                                             *)
(***************************************************************************)
SP == " "
NL == "\n"

\* s.startswith(p)
StartsWith(s, p) == Len(s) >= Len(p) /\ SubSeq(s, 1, Len(p)) = p

\* sub in s
Contains(s, sub) ==
    \/ sub = <<>>
    \/ \E i \in 1..(Len(s) - Len(sub) + 1) :
          s[i] = sub[1] /\ \A k \in 2..Len(sub) : s[i + k - 1] = sub[k]

\* s.strip()
RECURSIVE LStrip(_)
LStrip(s) == IF s # <<>> /\ Head(s) \in {SP, NL} THEN LStrip(Tail(s)) ELSE s

RECURSIVE RStrip(_)
RStrip(s) ==
    IF s # <<>> /\ s[Len(s)] \in {SP, NL} THEN RStrip(SubSeq(s, 1, Len(s) - 1)) ELSE s

Strip(s) == RStrip(LStrip(s))

\* s.replace(old, new): leftmost, non-overlapping occurrences
RECURSIVE Replace(_, _, _)
Replace(s, old, new) ==
    IF Len(s) < Len(old) THEN s
    ELSE IF SubSeq(s, 1, Len(old)) = old
         THEN new \o Replace(SubSeq(s, Len(old) + 1, Len(s)), old, new)
         ELSE <<Head(s)>> \o Replace(Tail(s), old, new)

\* s.split('\n'): the segments between line breaks, empty ones included
Breaks(s) == {i \in 1..Len(s) : s[i] = NL}

\* the positions that bound the segments of s: 0, its line breaks in order, Len(s) + 1
Bounds(s) ==
    LET B == Breaks(s)
        n == Cardinality(B)
    IN  [k \in 0..(n + 1) |->
            IF k = 0 THEN 0
            ELSE IF k = n + 1 THEN Len(s) + 1
            ELSE CHOOSE i \in B : Cardinality({j \in B : j < i}) = k - 1]

Split(s) ==
    LET pos == Bounds(s)
    IN  [k \in 1..(Cardinality(DOMAIN pos) - 1) |-> SubSeq(s, pos[k - 1] + 1, pos[k] - 1)]

\* the text of a sequence of lines, each ended by a line break
RECURSIVE JoinLines(_)
JoinLines(ls) == IF ls = <<>> THEN <<>> ELSE Head(ls) \o <<NL>> \o JoinLines(Tail(ls))

\* '\n'.join(ls)
RECURSIVE JoinNL(_)
JoinNL(ls) ==
    IF ls = <<>> THEN <<>>
    ELSE IF Len(ls) = 1 THEN Head(ls) ELSE Head(ls) \o <<NL>> \o JoinNL(Tail(ls))

\* os.path.dirname(p)  (posixpath)
RECURSIVE RStripSlash(_)
RStripSlash(s) ==
    IF s # <<>> /\ s[Len(s)] = "/" THEN RStripSlash(SubSeq(s, 1, Len(s) - 1)) ELSE s

LastSlash(p) ==
    LET S == {i \in 1..Len(p) : p[i] = "/"}
    IN  IF S = {} THEN 0 ELSE CHOOSE i \in S : \A j \in S : j <= i

dirname(p) ==
    LET head == SubSeq(p, 1, LastSlash(p))
    IN  IF head # <<>> /\ (\E i \in 1..Len(head) : head[i] # "/")
        THEN RStripSlash(head)
        ELSE head

(***************************************************************************)
(* Module constants of gsync.py                                            *)
(***************************************************************************)
HOME == <<"/", "Users", "/", "u">>          \* os.path.expanduser('~')
LOCAL_TARGET == HOME \o <<"/", "gdrive">>
MOUNTED_TARGET == <<"/", "Volumes", "/", "GoogleDrive", "/", "My", SP, "Drive", "/", "gdrive">>
LTP == dirname(LOCAL_TARGET)
MTP == dirname(MOUNTED_TARGET)
SCRIPT_BASENAME == <<"gsync.py">>

UNISON_IGNORE_OUTPUT ==
    {"Contacting", "Looking", "Reconciling", "Propagating", "UNISON", "[END]",
     "Saving", "Unison", "Nothing"}

NOTHING_TO_DO == <<"Nothing", SP, "to", SP, "do">>
SYNC_COMPLETE == <<"Synchronization", SP, "complete">>
BGN == <<"[BGN]", SP>>

\* SHORT_ACTION_NAME.get(verb, verb)
SHORT_ACTION_NAME(verb) ==
    IF verb = "Copying" THEN <<"added", SP, SP>>
    ELSE IF verb = "Updating file" THEN <<"updated">>
    ELSE <<verb>>

\* mutant: the aliases are substituted in the path itself, not in its parent
ultra_short_path_M(p) == Replace(Replace(p, LTP, <<"~">>), MTP, <<"/", "M">>)

\* os.path.dirname(path).replace(LTP, '~').replace(MTP, '/M')
ultra_short_path(path) == Replace(Replace(dirname(path), LTP, <<"~">>), MTP, <<"/", "M">>)

quoted(text) ==
    IF text = <<>> THEN <<>>
    ELSE LET t == Replace(text, HOME, <<"~">>)
         IN  IF \E i \in 1..Len(t) : t[i] = SP
             THEN IF \E i \in 1..Len(t) : t[i] = "\""
                  THEN <<"'">> \o t \o <<"'">>
                  ELSE <<"\"">> \o t \o <<"\"">>
             ELSE t

(***************************************************************************)
(* REGEX_UPDATE and REGEX_DELETE, matched at the start of the line.  Each  *)
(* (.+) is greedy: it takes the longest run of tokens that lets the rest   *)
(* of the pattern match; (/.+) is a "/" followed by at least one token.    *)
(***************************************************************************)
FROM == <<SP, "from", SP>>
TO == <<SP, "to", SP>>

Max(S) == CHOOSE i \in S : \A j \in S : j <= i

At(line, i, pat) ==
    i >= 1 /\ i + Len(pat) - 1 <= Len(line) /\ \A k \in 1..Len(pat) : line[i + k - 1] = pat[k]

\* positions j of " to " closing a source path that starts at position s
ToPositions(line, s) ==
    {j \in (s + 2)..(Len(line) - 4) : At(line, j, TO) /\ line[j + 3] = "/"}

\* positions i of " from " that let the rest of REGEX_UPDATE match
UpdateFromPositions(line) ==
    {i \in 6..(Len(line) - 4) :
        At(line, i, FROM) /\ line[i + 3] = "/" /\ ToPositions(line, i + 3) # {}}

NoMatch == [ok |-> FALSE, g1 |-> "", g2 |-> <<>>, g3 |-> <<>>, g4 |-> <<>>]

REGEX_UPDATE(line) ==
    IF StartsWith(line, BGN) /\ Len(line) >= 4
       /\ line[3] \in {"Updating file", "Copying"} /\ line[4] = SP
    THEN LET F == UpdateFromPositions(line)
         IN  IF F = {} THEN NoMatch
             ELSE LET i == Max(F)
                      j == Max(ToPositions(line, i + 3))
                  IN  [ok |-> TRUE, g1 |-> line[3], g2 |-> SubSeq(line, 5, i - 1),
                       g3 |-> SubSeq(line, i + 3, j - 1), g4 |-> SubSeq(line, j + 3, Len(line))]
    ELSE NoMatch

DeleteFromPositions(line) ==
    {i \in 6..(Len(line) - 4) : At(line, i, FROM) /\ line[i + 3] = "/"}

REGEX_DELETE(line) ==
    IF StartsWith(line, BGN \o <<"Deleting", SP>>)
    THEN LET F == DeleteFromPositions(line)
         IN  IF F = {} THEN NoMatch
             ELSE LET i == Max(F)
                  IN  [ok |-> TRUE, g1 |-> "Deleting", g2 |-> SubSeq(line, 5, i - 1),
                       g3 |-> SubSeq(line, i + 3, Len(line)), g4 |-> <<>>]
    ELSE NoMatch

(***************************************************************************)
(* perform_sync: the loop over error.split('\n')                           *)
(***************************************************************************)
IsNoise(line) == line # <<>> /\ Head(line) \in UNISON_IGNORE_OUTPUT

\* mutant: the destination path is printed as captured
RenderUpdate_M(m) ==
    SHORT_ACTION_NAME(m.g1) \o <<SP>> \o m.g2 \o <<SP, "(">> \o ultra_short_path(m.g3)
        \o <<SP, "->", SP>> \o m.g4 \o <<")">>

\* "%s %s (%s -> %s)"
RenderUpdate(m) ==
    SHORT_ACTION_NAME(m.g1) \o <<SP>> \o m.g2 \o <<SP, "(">> \o ultra_short_path(m.g3)
        \o <<SP, "->", SP>> \o ultra_short_path(m.g4) \o <<")">>

\* "deleted %s (%s)"
RenderDelete(m) ==
    <<"deleted", SP>> \o m.g2 \o <<SP, "(">> \o ultra_short_path(m.g3) \o <<")">>

\* mutant: a "[BGN] " line matching neither pattern is dropped without a warning
ClassifyLine_M(raw) ==
    LET line == Strip(raw)
    IN  IF line = <<>> \/ IsNoise(line) THEN [kind |-> "skip", text |-> <<>>]
        ELSE IF StartsWith(line, SYNC_COMPLETE) THEN [kind |-> "entry", text |-> line]
        ELSE IF StartsWith(line, BGN)
             THEN IF REGEX_UPDATE(line).ok
                  THEN [kind |-> "entry", text |-> RenderUpdate(REGEX_UPDATE(line))]
                  ELSE IF REGEX_DELETE(line).ok
                       THEN [kind |-> "entry", text |-> RenderDelete(REGEX_DELETE(line))]
                       ELSE [kind |-> "skip", text |-> <<>>]
        ELSE [kind |-> "warn", text |-> line]

\* what one raw line of the stream adds: an overview entry, a warning, or nothing
ClassifyLine(raw) ==
    LET line == Strip(raw)
    IN  IF line = <<>> \/ IsNoise(line) THEN [kind |-> "skip", text |-> <<>>]
        ELSE IF StartsWith(line, SYNC_COMPLETE) THEN [kind |-> "entry", text |-> line]
        ELSE IF StartsWith(line, BGN) /\ REGEX_UPDATE(line).ok
             THEN [kind |-> "entry", text |-> RenderUpdate(REGEX_UPDATE(line))]
        ELSE IF StartsWith(line, BGN) /\ REGEX_DELETE(line).ok
             THEN [kind |-> "entry", text |-> RenderDelete(REGEX_DELETE(line))]
        ELSE [kind |-> "warn", text |-> line]

RECURSIVE Overview(_)
Overview(lines) ==
    IF lines = <<>> THEN <<>>
    ELSE LET c == ClassifyLine(Head(lines))
         IN  (IF c.kind = "entry" THEN <<c.text>> ELSE <<>>) \o Overview(Tail(lines))

LogRec(level, what, n, text) == [level |-> level, what |-> what, n |-> n, text |-> text]

RECURSIVE Warnings(_)
Warnings(lines) ==
    IF lines = <<>> THEN <<>>
    ELSE LET c == ClassifyLine(Head(lines))
         IN  (IF c.kind = "warn" THEN <<LogRec("WARNING", "Check line", 0, c.text)>> ELSE <<>>)
             \o Warnings(Tail(lines))

\* mutant: the summary line is not subtracted
ModificationCount_M(overview) == Len(overview)

\* len(overview) - 1
ModificationCount(overview) == Len(overview) - 1

\* LOG.info("%s modifications in %.3f seconds:\n%s\n", ...)
ReportRec(overview) ==
    LogRec("INFO", "modifications", ModificationCount(overview), JoinNL(overview))

\* mutant: the marker is looked for at the start of the text only
NothingToDo_M(err) == StartsWith(err, NOTHING_TO_DO)

\* the "Nothing to do" test of perform_sync
NothingToDo(err) == Contains(err, NOTHING_TO_DO)

\* mutant: only return codes above 1 are taken as failures
FatalExit_M(fatal, rc) == fatal /\ rc > 1

\* run_command's fatal test: fatal and p.returncode
FatalExit(fatal, rc) == fatal /\ rc # 0

(***************************************************************************)
(* Inputs: lines the synchronizer may print, lines a scheduler table may   *)
(* hold.                                                                   *)
(***************************************************************************)
CopyLine(subj, src, dst) == BGN \o <<"Copying", SP>> \o subj \o FROM \o src \o TO \o dst
UpdateLine(subj, src, dst) == BGN \o <<"Updating file", SP>> \o subj \o FROM \o src \o TO \o dst
DeleteLine(subj, src) == BGN \o <<"Deleting", SP>> \o subj \o FROM \o src

StreamLines ==
    { <<"Reconciling", SP, "changes">>,
      NOTHING_TO_DO,
      SYNC_COMPLETE \o <<SP, "at", SP, "10:00">>,
      CopyLine(<<"a.txt">>, MOUNTED_TARGET, LOCAL_TARGET),
      <<SP, SP>> \o UpdateLine(<<"docs", "/", "b.txt">>, LOCAL_TARGET, MOUNTED_TARGET),
      DeleteLine(<<"c.txt">>, LOCAL_TARGET),
      <<"Fatal", SP, "error">>,
      BGN \o <<"Moving", SP, "d.txt">>,
      CopyLine(NOTHING_TO_DO, MOUNTED_TARGET, LOCAL_TARGET),
      CopyLine(<<"letter", SP, "from", SP, "/", "bob">>, MOUNTED_TARGET, LOCAL_TARGET) }

SeqsUpTo(S, n) == UNION {[1..k -> S] : k \in 0..n}

Streams == SeqsUpTo(StreamLines, MaxStream)

Pythons == {<<"/", "usr", "/", "bin", "/", "python">>, <<"python3">>}

CADENCE == <<"*/10", SP, "*", SP, "*", SP, "*", SP, "*", SP, SP>>

\* os.path.join(LOCAL_TARGET, 'roaming', SCRIPT_BASENAME)
cron_path == LOCAL_TARGET \o <<"/", "roaming", "/">> \o SCRIPT_BASENAME

\* '*/10 * * * *  %s %s --cron' % (python_interpreter, quoted(cron_path))
cron_line(py) == CADENCE \o py \o <<SP>> \o quoted(cron_path) \o <<SP, "--cron">>

TableLines ==
    { <<"@hourly", SP, "backup">>,
      <<SP, "@weekly", SP, "cleanup", SP>>,
      <<>>,
      <<"#", SP>> \o cron_line(<<"python3">>),
      cron_line(<<"python3">>),
      <<"@daily", SP, "python">> \o <<SP>> \o <<"old", "/">> \o SCRIPT_BASENAME }

Tables == SeqsUpTo(TableLines, MaxTable)

\* the inputs of the runs that vary the other input
FewTables == {<<>>, <<<<"@hourly", SP, "backup">>, cron_line(<<"python3">>)>>}

FewStreams ==
    SeqsUpTo({NOTHING_TO_DO, CopyLine(<<"a.txt">>, MOUNTED_TARGET, LOCAL_TARGET)}, MaxFewStream)

(***************************************************************************)
(* State                                                                   *)
(***************************************************************************)
VARIABLES
    mountDir,      \* os.path.isdir(MOUNTED_TARGET)
    localDir,      \* os.path.isdir(LOCAL_TARGET)
    localCopied,   \* LOCAL_TARGET holds a copytree() copy of the mount folder
    cronScript,    \* os.path.isfile(cron_path)
    unisonBin,     \* os.path.isfile(UNISON)
    crontabBin,    \* os.path.isfile(CRONTAB)
    table,         \* the user's scheduler table, a sequence of lines
    tempFile,      \* text of /tmp/gsync.cron
    pc,            \* position of the running main()
    python,        \* python_interpreter of the running main()
    error,         \* stderr text captured from the synchronizer
    log,           \* records logged by this run
    cmds,          \* external programs this run has started, in order
    returncode,    \* p.returncode of this run's last fatal run_command, -1 if none
    exitcode,      \* exit code of the process, -1 while it runs
    runs,          \* runs of main() started so far
    path,          \* a path given to ultra_short_path
    once,          \* ultra_short_path(path)
    twice,         \* ultra_short_path(ultra_short_path(path))
    stage          \* applications of ultra_short_path made so far

vars == <<mountDir, localDir, localCopied, cronScript, unisonBin, crontabBin, table,
          tempFile, pc, python, error, log, cmds, returncode, exitcode, runs,
          path, once, twice, stage>>

fsVars == <<mountDir, localDir, localCopied, cronScript, unisonBin, crontabBin>>

runVars == <<table, tempFile, pc, python, error, log, cmds, returncode, exitcode, runs>>

pathVars == <<path, once, twice, stage>>

InitWith(tables) ==
    /\ mountDir \in BOOLEAN
    /\ localDir \in BOOLEAN
    /\ localCopied = FALSE
    /\ cronScript \in (IF localDir THEN BOOLEAN ELSE {FALSE})
    /\ unisonBin \in BOOLEAN
    /\ crontabBin \in BOOLEAN
    /\ table \in tables
    /\ tempFile = <<>>
    /\ pc = "start"
    /\ python \in Pythons
    /\ error = <<>>
    /\ log = <<>>
    /\ cmds = <<>>
    /\ returncode = -1
    /\ exitcode = -1
    /\ runs = 1
    /\ path = <<>>
    /\ once = <<>>
    /\ twice = <<>>
    /\ stage = 0

\* abort(): LOG.error, sys.exit(1)
Abort(what, missing) ==
    /\ log' = Append(log, LogRec("ERROR", what, 0, quoted(missing)))
    /\ exitcode' = 1
    /\ pc' = "done"

\* run_command(fatal=True) on a non-zero return code: LOG.error, sys.exit(returncode)
ExitWith(program, rc) ==
    /\ log' = Append(log, LogRec("ERROR", "exited with code", rc, <<program>>))
    /\ exitcode' = rc
    /\ pc' = "done"

\* mutant: the exception handler ends the process with exit code 1
Crash_M(prefix) ==
    /\ log' = prefix \o <<LogRec("ERROR", "Crashed", 0, <<>>)>>
    /\ exitcode' = 1
    /\ pc' = "done"

\* except Exception: LOG.exception("Crashed: %s", e); main() returns
Crash(prefix) ==
    /\ log' = prefix \o <<LogRec("ERROR", "Crashed", 0, <<>>)>>
    /\ exitcode' = 0
    /\ pc' = "done"

\* main(), from the require_* checks to os.mkdir(LOCAL_TARGET)
MainStart ==
    /\ pc = "start"
    /\ UNCHANGED <<mountDir, localCopied, cronScript, unisonBin, crontabBin, table,
                   tempFile, python, error, cmds, returncode, runs, pathVars>>
    /\ IF ~mountDir THEN Abort("Folder does not exist", MOUNTED_TARGET) /\ UNCHANGED localDir
       ELSE IF ~unisonBin THEN Abort("File does not exist", <<"unison">>) /\ UNCHANGED localDir
       ELSE IF ~crontabBin THEN Abort("File does not exist", <<"crontab">>) /\ UNCHANGED localDir
       ELSE IF ~localDir
            THEN \E mkdirOk \in BOOLEAN :
                    LET l == Append(log, LogRec("INFO", "Creating folder", 0, LOCAL_TARGET))
                    IN  IF mkdirOk
                        THEN /\ localDir' = TRUE
                             /\ log' = l
                             /\ pc' = "crontab_list"
                             /\ UNCHANGED exitcode
                        ELSE Crash(l) /\ UNCHANGED localDir
            ELSE /\ pc' = "crontab_list"
                 /\ UNCHANGED <<localDir, log, exitcode>>

\* mutant: lines naming the script are kept
RECURSIVE KeptLines_M(_)
KeptLines_M(lines) ==
    IF lines = <<>> THEN <<>>
    ELSE LET line == Strip(Head(lines))
         IN  (IF line # <<>> THEN line \o <<NL>> ELSE <<>>) \o KeptLines_M(Tail(lines))

\* the lines main() writes to the temporary file, from the output of `crontab -l`
RECURSIVE KeptLines(_)
KeptLines(lines) ==
    IF lines = <<>> THEN <<>>
    ELSE LET line == Strip(Head(lines))
         IN  (IF line # <<>> /\ ~Contains(line, SCRIPT_BASENAME) THEN line \o <<NL>> ELSE <<>>)
             \o KeptLines(Tail(lines))

CronFileText(output, cl) == KeptLines(Split(output)) \o cl \o <<NL>>

\* cron_line not in output
NeedsInstall(output, cl) == ~Contains(output, cl)

\* `crontab -l` prints the table; `crontab <file>` makes the file's lines the table
CrontabOutput(t) == JoinLines(t)
FileLines(text) == LET ls == Split(text) IN SubSeq(ls, 1, Len(ls) - 1)

\* main(): run `crontab -l` (not fatal, exit code unused), write the temporary file
CrontabList ==
    /\ pc = "crontab_list"
    /\ cmds' = Append(cmds, "crontab -l")
    /\ LET output == CrontabOutput(table)
           cl == cron_line(python)
       IN  IF NeedsInstall(output, cl)
           THEN /\ log' = Append(log, LogRec("INFO", "Installing cron job", 0, cl))
                /\ tempFile' = CronFileText(output, cl)
                /\ pc' = "crontab_install"
           ELSE /\ pc' = "sync"
                /\ UNCHANGED <<log, tempFile>>
    /\ UNCHANGED <<fsVars, table, python, error, returncode, exitcode, runs, pathVars>>

\* main(): run `crontab <temp_file>` (fatal), os.unlink(temp_file)
CrontabInstall ==
    /\ pc = "crontab_install"
    /\ cmds' = Append(cmds, "crontab")
    /\ \E rc \in 0..MaxRC :
          /\ returncode' = rc
          /\ IF FatalExit(TRUE, rc)
             THEN ExitWith("crontab", rc) /\ UNCHANGED <<table, tempFile>>
             ELSE /\ table' = FileLines(tempFile)
                  /\ tempFile' = <<>>
                  /\ pc' = "sync"
                  /\ UNCHANGED <<log, exitcode>>
    /\ UNCHANGED <<fsVars, python, error, runs, pathVars>>

\* n copies of x
Times(x, n) == [i \in 1..n |-> x]

\* perform_sync(), after run_command returned (exit code 0): the "Nothing to do"
\* test, the loop over the lines, the report and the chmod of ~/bin
AfterSync(l, c, err) ==
    IF NothingToDo(err)
    THEN log' = l /\ cmds' = c
    ELSE LET lines == Split(err)
             overview == Overview(lines)
         IN  IF overview # <<>>
             THEN /\ log' = l \o Warnings(lines) \o <<ReportRec(overview)>>
                  /\ \E nfiles \in 0..MaxBinFiles : cmds' = c \o Times("chmod", nfiles)
             ELSE /\ log' = l \o Warnings(lines)
                  /\ cmds' = c

\* perform_sync(); streams: what the synchronizer may print
perform_sync(streams) ==
    IF ~mountDir
    THEN Abort("Folder does not exist", MOUNTED_TARGET)
         /\ UNCHANGED <<localDir, localCopied, cronScript, error, cmds, returncode>>
    ELSE LET copying == ~localDir
             l == IF copying
                  THEN Append(log, LogRec("INFO", "Copying", 0, MOUNTED_TARGET \o <<SP, "->", SP>> \o LOCAL_TARGET))
                  ELSE log
             c == Append(cmds, "unison")
         IN  /\ localDir' = (localDir \/ copying)
             /\ localCopied' = (localCopied \/ copying)
             /\ \E rc \in 0..MaxRC, stream \in streams :
                   /\ error' = JoinLines(stream)
                   /\ returncode' = rc
                   /\ IF FatalExit(TRUE, rc)
                      THEN /\ log' = Append(l, LogRec("ERROR", "exited with code", rc, <<"unison">>))
                           /\ exitcode' = rc
                           /\ pc' = "done"
                           /\ cmds' = c
                           /\ UNCHANGED cronScript
                      ELSE /\ AfterSync(l, c, error')
                           /\ cronScript' \in (IF cronScript THEN {TRUE} ELSE BOOLEAN)
                           /\ pc' = "require_script"
                           /\ UNCHANGED exitcode

\* main(): require_folder(LOCAL_TARGET), perform_sync()
PerformSyncOn(streams) ==
    /\ pc = "sync"
    /\ UNCHANGED <<mountDir, unisonBin, crontabBin, table, tempFile, python, runs, pathVars>>
    /\ IF ~localDir
       THEN Abort("Folder does not exist", LOCAL_TARGET)
            /\ UNCHANGED <<localDir, localCopied, cronScript, error, cmds, returncode>>
       ELSE perform_sync(streams)

PerformSync == PerformSyncOn(Streams)

PerformSyncFew == PerformSyncOn(FewStreams)

\* except KeyboardInterrupt, while main() waits for the synchronizer
Interrupt ==
    /\ pc = "sync"
    /\ log' = Append(log, LogRec("INFO", "Aborted", 0, <<>>))
    /\ exitcode' = 0
    /\ pc' = "done"
    /\ UNCHANGED <<fsVars, table, tempFile, python, error, cmds, returncode, runs, pathVars>>

\* main(): require_file(cron_path), then the process ends
RequireScript ==
    /\ pc = "require_script"
    /\ IF cronScript
       THEN exitcode' = 0 /\ pc' = "done" /\ UNCHANGED log
       ELSE Abort("File does not exist", cron_path)
    /\ UNCHANGED <<fsVars, table, tempFile, python, error, cmds, returncode, runs, pathVars>>

\* the next invocation of the script
NextRun ==
    /\ pc = "done"
    /\ runs < MaxRuns
    /\ runs' = runs + 1
    /\ pc' = "start"
    /\ python' \in Pythons
    /\ error' = <<>>
    /\ log' = <<>>
    /\ cmds' = <<>>
    /\ returncode' = -1
    /\ exitcode' = -1
    /\ UNCHANGED <<fsVars, table, tempFile, pathVars>>

Next ==
    \/ MainStart
    \/ CrontabList
    \/ CrontabInstall
    \/ PerformSync
    \/ Interrupt
    \/ RequireScript
    \/ NextRun

\* runs of main() over every stream of the synchronizer
Init == InitWith(FewTables)

Spec == Init /\ [][Next]_vars

\* runs of main() over every scheduler table
InitCron == InitWith(Tables)

NextCron ==
    \/ MainStart
    \/ CrontabList
    \/ CrontabInstall
    \/ PerformSyncFew
    \/ Interrupt
    \/ RequireScript
    \/ NextRun

SpecCron == InitCron /\ [][NextCron]_vars

(***************************************************************************)
(* ultra_short_path applied to a path, then to its own result              *)
(***************************************************************************)
MaxDepth == 2       \* path components below a prefix

RECURSIVE Below(_)
Below(names) == IF names = <<>> THEN <<>> ELSE <<"/", Head(names)>> \o Below(Tail(names))

PathPrefixes ==
    {<<>>, LTP, MTP, LOCAL_TARGET, MOUNTED_TARGET, <<"/", "tmp">>, <<"/">>, <<"~">>,
     MTP \o LTP}

Paths == {pre \o Below(names) : pre \in PathPrefixes, names \in SeqsUpTo({"a", "b.txt"}, MaxDepth)}

InitPath ==
    /\ mountDir = TRUE /\ localDir = TRUE /\ localCopied = FALSE /\ cronScript = TRUE
    /\ unisonBin = TRUE /\ crontabBin = TRUE
    /\ table = <<>> /\ tempFile = <<>> /\ pc = "idle" /\ python = <<"python3">>
    /\ error = <<>> /\ log = <<>> /\ cmds = <<>> /\ returncode = -1 /\ exitcode = -1
    /\ runs = 0
    /\ path \in Paths
    /\ once = <<>>
    /\ twice = <<>>
    /\ stage = 0

ShortenOnce ==
    /\ stage = 0
    /\ once' = ultra_short_path(path)
    /\ stage' = 1
    /\ UNCHANGED <<fsVars, runVars, path, twice>>

ShortenTwice ==
    /\ stage = 1
    /\ twice' = ultra_short_path(once)
    /\ stage' = 2
    /\ UNCHANGED <<fsVars, runVars, path, once>>

NextPath == ShortenOnce \/ ShortenTwice

SpecPath == InitPath /\ [][NextPath]_vars

(***************************************************************************)
(* Properties                                                              *)
(***************************************************************************)
\* the last record logged by this run (an empty record when there is none)
LastLog == IF log = <<>> THEN LogRec("", "", 0, <<>>) ELSE log[Len(log)]
Logged(what) == \E i \in 1..Len(log) : log[i].what = what
Ran(cmd) == \E i \in 1..Len(cmds) : cmds[i] = cmd
HasMarker == Contains(error, NOTHING_TO_DO)
Reported == Logged("modifications")

\* the lines of a captured stream, stripped
Stripped(err) == LET ls == Split(err) IN [i \in 1..Len(ls) |-> Strip(ls[i])]

IsSummary(l) == l # <<>> /\ ~IsNoise(l) /\ StartsWith(l, SYNC_COMPLETE)
IsChange(l) == l # <<>> /\ ~IsNoise(l) /\ ~StartsWith(l, SYNC_COMPLETE)
                   /\ (REGEX_UPDATE(l).ok \/ REGEX_DELETE(l).ok)
IsUnrecognized(l) == l # <<>> /\ ~IsNoise(l) /\ ~StartsWith(l, SYNC_COMPLETE)
                        /\ ~REGEX_UPDATE(l).ok /\ ~REGEX_DELETE(l).ok

\* number of Added, Updated, Deleted and SummaryLine entries among the lines ls
EntryCount(ls) == Cardinality({i \in 1..Len(ls) : IsSummary(ls[i]) \/ IsChange(ls[i])})

\* C1 as stated: a non-zero exit code of the synchronizer ends the process with
\* that code, unless the stream holds "Nothing to do": then perform_sync returns
\* and the process does not exit on it.
C1_Original ==
    (Ran("unison") /\ returncode > 0) =>
        IF HasMarker
        THEN ~(pc = "done" /\ exitcode = returncode /\ LastLog.what = "exited with code")
        ELSE pc = "done" /\ exitcode = returncode

\* C1 amended: a non-zero exit code of the synchronizer always ends the process
\* with that code, the "Nothing to do" marker or not; the marker makes
\* perform_sync return early only when the exit code is 0.
C1_Amended ==
    /\ (Ran("unison") /\ returncode > 0) =>
           (pc = "done" /\ exitcode = returncode /\ LastLog.what = "exited with code"
               /\ LastLog.n = returncode)
    /\ (Ran("unison") /\ returncode = 0) => ~Logged("exited with code")

C1_Witness ==
    Ran("unison") /\ returncode > 0 /\ HasMarker /\ pc = "done" /\ exitcode = returncode

\* C2: a run of main() that found the mount folder present and the local target
\* absent ("Creating folder" is logged) has made the copytree copy of the mount
\* folder by the time the synchronizer has been started.
C2_FirstRunCopies ==
    (Logged("Creating folder") /\ Ran("unison")) => (localCopied /\ Logged("Copying"))

\* the entries main() carries over: stripped, non-blank, not naming the script
PreservedEntries(t) ==
    SelectSeq([i \in 1..Len(t) |-> Strip(t[i])],
              LAMBDA l : l # <<>> /\ ~Contains(l, SCRIPT_BASENAME))

CronCount(t, cl) == Cardinality({i \in 1..Len(t) : Contains(t[i], cl)})

\* the non-blank lines of a table, stripped
Entries(t) == SelectSeq([i \in 1..Len(t) |-> Strip(t[i])], LAMBDA l : l # <<>>)

\* C3 as stated: whenever the scheduler table is rewritten, the new table is the
\* old entries (its non-blank lines, surrounding blanks aside) in their order,
\* followed by one cron line, so that every old entry is still there.
C3_Original == [][table' # table => table' = Append(Entries(table), cron_line(python))]_vars

\* C3 amended: the table is rewritten only by the install step and only when the
\* listed text does not contain the cron line as a substring; the new table is
\* the old lines, stripped, in their order, without the blank lines and without
\* every line naming gsync.py, followed by the cron line, so that exactly one
\* line contains the cron line; a table whose text contains the cron line is
\* left as it is.
C3_Amended ==
    [][ /\ (table' # table => pc = "crontab_install" /\ pc' = "sync")
        /\ (pc = "crontab_install" /\ pc' = "sync" =>
               /\ \A i \in 1..Len(table) : ~Contains(table[i], cron_line(python))
               /\ table' = Append(PreservedEntries(table), cron_line(python))
               /\ CronCount(table', cron_line(python)) = 1)
        /\ (pc = "crontab_list" /\ (\E i \in 1..Len(table) : Contains(table[i], cron_line(python)))
               => pc' = "sync" /\ table' = table)
        /\ (pc = "crontab_list" /\ (\A i \in 1..Len(table) : ~Contains(table[i], cron_line(python)))
               => pc' = "crontab_install")
      ]_vars

C3_Witness ==
    /\ pc = "sync" /\ Logged("Installing cron job") /\ runs = 2
    /\ Len(table) = 2 /\ table[2] = cron_line(python) /\ table[1] = <<"@hourly", SP, "backup">>

PreconditionFailed ==
    log # <<>> /\ LastLog.what \in {"Folder does not exist", "File does not exist"}

\* C4 as stated: the exit code is 1 when a precondition failed and 0 otherwise.
C4_Original == pc = "done" => exitcode = (IF PreconditionFailed THEN 1 ELSE 0)

\* C4 amended: the exit code is 1 when a precondition failed, the return code
\* of the command when `crontab <file>` or the synchronizer returned non-zero,
\* and 0 otherwise (a crash and an interrupt included).
C4_Amended ==
    pc = "done" =>
        exitcode = (IF PreconditionFailed THEN 1
                    ELSE IF returncode > 0 THEN returncode ELSE 0)

C4_Witness == pc = "done" /\ ~PreconditionFailed /\ returncode = 2 /\ exitcode = 2

\* C5: when the captured stream contains "Nothing to do" anywhere, the run logs
\* no modification summary and no warning, and starts no chmod.
C5_NoReport ==
    HasMarker => ~Logged("modifications") /\ ~Logged("Check line") /\ ~Ran("chmod")

C5_Witness ==
    /\ pc = "require_script" /\ HasMarker /\ ~StartsWith(error, NOTHING_TO_DO)
    /\ LET ls == Stripped(error) IN \E i \in 1..Len(ls) : IsChange(ls[i])

\* C7: every report displays the number of Added, Updated, Deleted and
\* SummaryLine entries of the stream, minus one.
C7_CountMinusOne ==
    Reported =>
        LET count == EntryCount(Stripped(error))
        IN  \A i \in 1..Len(log) : log[i].what = "modifications" => log[i].n = count - 1

C7_Witness ==
    Reported /\ LastLog.what = "modifications" /\ LastLog.n = 1
        /\ EntryCount(Stripped(error)) = 2

\* C8: the displayed count leaves one out only when a summary line is among
\* the entries; without one it is the number of change entries.
C8_SubtractsOnlySummary ==
    Reported =>
        LET ls == Stripped(error)
            count == EntryCount(ls) - (IF \E k \in 1..Len(ls) : IsSummary(ls[k]) THEN 1 ELSE 0)
        IN  \A i \in 1..Len(log) : log[i].what = "modifications" => log[i].n = count

WarnedLines ==
    LET w == SelectSeq(log, LAMBDA r : r.what = "Check line")
    IN  [i \in 1..Len(w) |-> w[i].text]

ParsedAndReported ==
    LET ls == Stripped(error)
        count == EntryCount(ls)
    IN  /\ WarnedLines = SelectSeq(ls, IsUnrecognized)
        /\ \A i \in 1..Len(log) : log[i].what = "Check line" => log[i].level = "WARNING"
        /\ (count > 0 => LastLog.what = "modifications" /\ Len(Split(LastLog.text)) = count)
        /\ (count = 0 => ~Reported)

\* C9 as stated: once perform_sync has returned, every unrecognized line of the
\* stream has been logged as a warning, in order, and the report has been
\* produced from the recognized lines.
C9_Original == pc = "require_script" => ParsedAndReported

\* C9 amended: the same, for a stream that does not contain "Nothing to do".
C9_Amended == (pc = "require_script" /\ ~HasMarker) => ParsedAndReported

C9_Witness ==
    /\ pc = "require_script" /\ ~HasMarker
    /\ LET ls == Stripped(error)
       IN  Len(ls) >= 2 /\ IsUnrecognized(ls[1]) /\ IsChange(ls[2])
    /\ LastLog.what = "modifications"

\* the lines of a stream that match the update/copy pattern with verb "Copying"
CopyingLines(err) ==
    SelectSeq(Stripped(err),
              LAMBDA l : /\ l # <<>> /\ ~IsNoise(l) /\ ~StartsWith(l, SYNC_COMPLETE)
                         /\ LET m == REGEX_UPDATE(l) IN m.ok /\ m.g1 = "Copying")

ExpectedAdded(l) ==
    LET m == REGEX_UPDATE(l)
    IN  <<"added", SP>> \o m.g2 \o <<SP, "(">> \o ultra_short_path(m.g3)
            \o <<SP, "->", SP>> \o ultra_short_path(m.g4) \o <<")">>

\* the "added" entries of a report text, the label's padding removed
AddedEntries(text) ==
    LET a == SelectSeq(Split(text), LAMBDA e : e # <<>> /\ Head(e) = "added")
    IN  [i \in 1..Len(a) |-> <<"added", SP>> \o LStrip(Tail(a[i]))]

\* C10: in every report, the entries labelled "added" are, in stream order, one
\* per line matching the update/copy pattern with verb "Copying":
\* "added <subject> (<from> -> <to>)" with both captured paths shortened.
C10_AddedEntries ==
    Reported =>
        LET c == CopyingLines(error)
            expected == [k \in 1..Len(c) |-> ExpectedAdded(c[k])]
        IN  \A i \in 1..Len(log) :
                log[i].what = "modifications" => AddedEntries(log[i].text) = expected

C10_Witness ==
    /\ Reported
    /\ LET c == CopyingLines(error)
       IN  /\ Len(c) = 2 /\ c[1] # c[2]
           /\ REGEX_UPDATE(c[1]).g2 = <<"letter", SP, "from", SP, "/", "bob">>

AllSlashes(p) == \A i \in 1..Len(p) : p[i] = "/"

\* C6 as stated: shortening a shortened path returns it unchanged.
C6_Original == stage = 2 => twice = once

\* C6 amended: shortening a shortened path returns it unchanged exactly when it
\* is empty or made of "/" only; otherwise the second application, which again
\* takes the parent directory first, gives a strictly shorter path.
C6_Amended ==
    stage = 2 => /\ (twice = once <=> AllSlashes(once))
                 /\ (~AllSlashes(once) => Len(twice) < Len(once))

C6_Witness == stage = 2 /\ once = <<"~", "/", "gdrive">> /\ twice = <<"~">>

====
